---- MODULE Spec2Model ----
(***************************************************************************)
(* Model of examples/adapt_callbacks.cpp: a callback-style AsyncAPI and    *)
(* the four adapters (write_ec, write, read_ec, read) that turn it into    *)
(* blocking-looking calls with a boost::fibers promise/future pair.        *)
(*                                                                         *)
(* Fibers (Tasks) share one worker thread cooperatively; every             *)
(* init_write / init_read launches a detached completion thread that runs  *)
(* truly concurrently with the fibers and calls the adapter's lambda.      *)
(***************************************************************************)
EXTENDS Integers, Sequences, FiniteSets, TLC

\* ------------------------------------------------------------------ bounds
NumTasks == 2
MaxOps == 4

Tasks == 1..NumTasks
NoTask == 0

\* error codes the driver may inject (0 == success) and payloads it may write
Codes == {-1, 0, 12}
Payloads == {"efgh", "ijkl"}
NoData == ""

VARIABLES
    data_,      \* AsyncAPI::data_
    injected_,  \* AsyncAPI::injected_
    threads,    \* detached completion threads that have not yet called back
    running,    \* the fiber that holds the worker thread (NoTask: none)
    pc,         \* per fiber: "idle" | "issued" | "suspended"
    frame,      \* per fiber: TRUE while an adapter frame (promise, future) is alive
    \* The next seven describe a fiber's current adapter invocation; they are
    \* kept while the fiber is inside the adapter and in the state right after
    \* it returned, and forgotten at the fiber's next step.
    op,         \* per fiber: the adapter it is (or was just) inside
    slot,       \* per fiber: shared state of the invocation's promise
    nset,       \* per fiber: set_value/set_exception calls made on that promise
    ninit,      \* per fiber: init_write/init_read calls made by the invocation
    nsusp,      \* per fiber: times the invocation suspended in future.get()
    snap,       \* per fiber: the code (and, for a read, the payload) the service
                \*   captured when the operation was issued
    result,     \* per fiber: how the invocation ended
    ops,        \* operations the driver has started so far
    uaf,        \* a completion handler touched a promise whose frame was gone
    \* history of the calls made on the service, as their callers saw them
    lastOk,     \* payload of the last write issued while no error was injected
    lastWrite,  \* <<[by, data]>>: the last write issued, while it is in flight
    roundTrip,  \* <<P>>: the last write issued wrote P and has returned success
    expect      \* per fiber: roundTrip (if no error was injected) and lastOk
                \*   as they were when the fiber issued its read

vars == <<data_, injected_, threads, running, pc, frame, op, slot, nset,
          ninit, nsusp, snap, result, ops, uaf, lastOk, lastWrite, roundTrip,
          expect>>

\* ------------------------------------------------------- helper: messages
Digit(d) ==
    CASE d = 0 -> "0" [] d = 1 -> "1" [] d = 2 -> "2" [] d = 3 -> "3"
      [] d = 4 -> "4" [] d = 5 -> "5" [] d = 6 -> "6" [] d = 7 -> "7"
      [] d = 8 -> "8" [] d = 9 -> "9"

RECURSIVE Decimal(_)
\* operator<<(std::ostream&, int): decimal digits, '-' for negatives
Decimal(n) ==
    IF n < 0 THEN "-" \o Decimal(0 - n)
    ELSE IF n < 10 THEN Digit(n)
    ELSE Decimal(n \div 10) \o Digit(n % 10)

make_exception(desc, ec) ==
    "Error in AsyncAPI::" \o desc \o "(): " \o Decimal(ec)

\* ------------------------------------------- promise / future shared state
EmptySlot == [st |-> "empty", ec |-> 0, data |-> NoData, what |-> ""]

\* promise<T>::set_value: stores the value and marks the state ready; a
\* second fulfilment leaves the state as it is
promise_set_value(s, ec, data) ==
    IF s.st = "empty"
    THEN [st |-> "value", ec |-> ec, data |-> data, what |-> ""]
    ELSE s

promise_set_exception(s, what) ==
    IF s.st = "empty"
    THEN [st |-> "exception", ec |-> 0, data |-> NoData, what |-> what]
    ELSE s

\* the predicate future<T>::get() waits for
is_ready(s) == s.st # "empty"

\* what future<T>::get() hands back once the state is ready
future_get(s) ==
    IF s.st = "exception"
    THEN [kind |-> "throw", ec |-> 0, data |-> NoData, what |-> s.what]
    ELSE [kind |-> "ret", ec |-> s.ec, data |-> s.data, what |-> ""]

NoResult == [kind |-> "none", ec |-> 0, data |-> NoData, what |-> ""]
NoSnap == [injected |-> 0, data |-> NoData]
NoExpect == [rt |-> <<>>, last |-> NoData]

Init ==
    /\ data_ = NoData
    /\ injected_ = 0
    /\ threads = {}
    /\ running = NoTask
    /\ pc = [t \in Tasks |-> "idle"]
    /\ frame = [t \in Tasks |-> FALSE]
    /\ op = [t \in Tasks |-> "none"]
    /\ slot = [t \in Tasks |-> EmptySlot]
    /\ nset = [t \in Tasks |-> 0]
    /\ ninit = [t \in Tasks |-> 0]
    /\ nsusp = [t \in Tasks |-> 0]
    /\ snap = [t \in Tasks |-> NoSnap]
    /\ result = [t \in Tasks |-> NoResult]
    /\ ops = 0
    /\ uaf = FALSE
    /\ lastOk = NoData
    /\ lastWrite = <<>>
    /\ roundTrip = <<>>
    /\ expect = [t \in Tasks |-> NoExpect]

\* fiber t moves on from the adapter call that has just returned
Forget(t) ==
    /\ op' = [op EXCEPT ![t] = "none"]
    /\ slot' = [slot EXCEPT ![t] = EmptySlot]
    /\ nset' = [nset EXCEPT ![t] = 0]
    /\ ninit' = [ninit EXCEPT ![t] = 0]
    /\ nsusp' = [nsusp EXCEPT ![t] = 0]
    /\ snap' = [snap EXCEPT ![t] = NoSnap]
    /\ result' = [result EXCEPT ![t] = NoResult]
    /\ expect' = [expect EXCEPT ![t] = NoExpect]

\* ------------------------------------------------------------ the service
\* AsyncAPI::inject_error, called by fiber t
inject_error(t, c) ==
    /\ running = t
    /\ pc[t] = "idle"
    /\ ops < MaxOps
    /\ injected_' = c
    /\ ops' = ops + 1
    /\ Forget(t)
    /\ UNCHANGED <<data_, threads, running, pc, frame, uaf, lastOk, lastWrite,
                   roundTrip>>

\* the detached thread init_write / init_read launches: it holds copies of
\* the injected code, of the payload and of the callback h, whose captured
\* promise reference points into the adapter frame of fiber t (dangling:
\* that frame has returned since)
CompletionThread(t, h, ec, data) ==
    [owner |-> t, handler |-> h, injected |-> ec, data |-> data,
     dangling |-> FALSE]

\* (mutant) the payload is stored when an error is injected, not otherwise
init_write_inverted(t, d, h) ==
    /\ injected_' = 0
    /\ data_' = IF injected_ # 0 THEN d ELSE data_
    /\ threads' = threads \cup {CompletionThread(t, h, injected_, NoData)}
    /\ ninit' = [ninit EXCEPT ![t] = IF pc[t] = "idle" THEN 1 ELSE @ + 1]
    /\ snap' = [snap EXCEPT ![t] = [injected |-> injected_, data |-> NoData]]

\* (mutant) the payload is stored whether or not an error is injected
init_write_always(t, d, h) ==
    /\ injected_' = 0
    /\ data_' = d
    /\ threads' = threads \cup {CompletionThread(t, h, injected_, NoData)}
    /\ ninit' = [ninit EXCEPT ![t] = IF pc[t] = "idle" THEN 1 ELSE @ + 1]
    /\ snap' = [snap EXCEPT ![t] = [injected |-> injected_, data |-> NoData]]

\* (mutant) init_write copies the injected code and leaves it in place
init_write_sticky(t, d, h) ==
    /\ injected_' = injected_
    /\ data_' = IF injected_ = 0 THEN d ELSE data_
    /\ threads' = threads \cup {CompletionThread(t, h, injected_, NoData)}
    /\ ninit' = [ninit EXCEPT ![t] = IF pc[t] = "idle" THEN 1 ELSE @ + 1]
    /\ snap' = [snap EXCEPT ![t] = [injected |-> injected_, data |-> NoData]]

\* AsyncAPI::init_write(data, callback), called by fiber t inside adapter h
init_write(t, d, h) ==
    /\ injected_' = 0
    /\ data_' = IF injected_ = 0 THEN d ELSE data_
    /\ threads' = threads \cup {CompletionThread(t, h, injected_, NoData)}
    /\ ninit' = [ninit EXCEPT ![t] = IF pc[t] = "idle" THEN 1 ELSE @ + 1]
    /\ snap' = [snap EXCEPT ![t] = [injected |-> injected_, data |-> NoData]]

\* (mutant) the injected code is copied but not reset
init_read_sticky(t, h) ==
    /\ injected_' = injected_
    /\ data_' = data_
    /\ threads' = threads \cup {CompletionThread(t, h, injected_, data_)}
    /\ ninit' = [ninit EXCEPT ![t] = IF pc[t] = "idle" THEN 1 ELSE @ + 1]
    /\ snap' = [snap EXCEPT ![t] = [injected |-> injected_, data |-> data_]]

\* (mutant) the thread captures injected_ after it was reset
init_read_late(t, h) ==
    /\ injected_' = 0
    /\ data_' = data_
    /\ threads' = threads \cup {CompletionThread(t, h, 0, data_)}
    /\ ninit' = [ninit EXCEPT ![t] = IF pc[t] = "idle" THEN 1 ELSE @ + 1]
    /\ snap' = [snap EXCEPT ![t] = [injected |-> injected_, data |-> data_]]

\* (mutant) the local copy is moved out of data_, which is left empty
init_read_moved(t, h) ==
    /\ injected_' = 0
    /\ data_' = NoData
    /\ threads' = threads \cup {CompletionThread(t, h, injected_, data_)}
    /\ ninit' = [ninit EXCEPT ![t] = IF pc[t] = "idle" THEN 1 ELSE @ + 1]
    /\ snap' = [snap EXCEPT ![t] = [injected |-> injected_, data |-> data_]]

\* AsyncAPI::init_read(callback), called by fiber t inside adapter h
init_read(t, h) ==
    /\ injected_' = 0
    /\ data_' = data_
    /\ threads' = threads \cup {CompletionThread(t, h, injected_, data_)}
    /\ ninit' = [ninit EXCEPT ![t] = IF pc[t] = "idle" THEN 1 ELSE @ + 1]
    /\ snap' = [snap EXCEPT ![t] = [injected |-> injected_, data |-> data_]]

\* ------------------------------------------------- history of the calls
\* fiber t issues a write of d
WriteIssued(t, d) ==
    /\ lastOk' = IF injected_ = 0 THEN d ELSE lastOk
    /\ lastWrite' = <<[by |-> t, data |-> d]>>
    /\ roundTrip' = <<>>
    /\ expect' = [expect EXCEPT ![t] = NoExpect]

\* fiber t issues a read
ReadIssued(t) ==
    /\ expect' = [expect EXCEPT ![t] =
                     [rt |-> IF injected_ = 0 THEN roundTrip ELSE <<>>,
                      last |-> lastOk]]
    /\ UNCHANGED <<lastOk, lastWrite, roundTrip>>

\* fiber t's call ends with outcome r
Returned(t, r) ==
    /\ lastWrite' = IF lastWrite # <<>> /\ lastWrite[1].by = t THEN <<>>
                    ELSE lastWrite
    /\ roundTrip' = IF lastWrite # <<>> /\ lastWrite[1].by = t
                    THEN (IF r.kind = "ret" /\ r.ec = 0
                          THEN <<lastWrite[1].data>> ELSE <<>>)
                    ELSE roundTrip
    /\ UNCHANGED <<lastOk, expect>>

\* ----------------------------------------------------------- the adapters
\* entering an adapter: promise and future are constructed in its frame
Enter(t, o) ==
    /\ running = t
    /\ pc[t] = "idle"
    /\ ops < MaxOps
    /\ ops' = ops + 1
    /\ pc' = [pc EXCEPT ![t] = "issued"]
    /\ op' = [op EXCEPT ![t] = o]
    /\ frame' = [frame EXCEPT ![t] = TRUE]
    /\ slot' = [slot EXCEPT ![t] = EmptySlot]
    /\ nset' = [nset EXCEPT ![t] = 0]
    /\ nsusp' = [nsusp EXCEPT ![t] = 0]
    /\ result' = [result EXCEPT ![t] = NoResult]
    /\ UNCHANGED <<running, uaf>>

\* write_ec(api, data) up to the return of api.init_write
write_ec(t, d) ==
    /\ Enter(t, "write_ec")
    /\ init_write(t, d, "write_ec")
    /\ WriteIssued(t, d)

\* (mutant) write issues the operation itself and then again through
\* write_ec
write_twice(t, d) ==
    /\ Enter(t, "write")
    /\ injected_' = 0
    /\ data_' = d
    /\ threads' = threads \cup {CompletionThread(t, "write_ec", injected_, NoData),
                                CompletionThread(t, "write_ec", 0, NoData)}
    /\ ninit' = [ninit EXCEPT ![t] = 2]
    /\ snap' = [snap EXCEPT ![t] = [injected |-> injected_, data |-> NoData]]
    /\ WriteIssued(t, d)

\* write(api, data): calls write_ec
write(t, d) ==
    /\ Enter(t, "write")
    /\ init_write(t, d, "write_ec")
    /\ WriteIssued(t, d)

\* read_ec(api) up to the return of api.init_read
read_ec(t) ==
    /\ Enter(t, "read_ec")
    /\ init_read(t, "read_ec")
    /\ ReadIssued(t)

\* read(api) up to the return of api.init_read
read(t) ==
    /\ Enter(t, "read")
    /\ init_read(t, "read")
    /\ ReadIssued(t)

\* the three lambdas the adapters pass as callback: the promise state after
\* the call
write_ec_callback(s, ec) == promise_set_value(s, ec, NoData)

\* (mutant) read_ec's lambda leaves the payload out when the code is nonzero
read_ec_callback_nodata(s, ec, data) ==
    promise_set_value(s, ec, IF ec = 0 THEN data ELSE NoData)

read_ec_callback(s, ec, data) == promise_set_value(s, ec, data)

\* (mutant) read's lambda names the wrong operation in its failure
read_callback_wrongname(s, ec, data) ==
    IF ec = 0
    THEN promise_set_value(s, 0, data)
    ELSE promise_set_exception(s, make_exception("write", ec))

\* (mutant) read's lambda forgets the failure branch
read_callback_novalue(s, ec, data) ==
    IF ec = 0 THEN promise_set_value(s, 0, data) ELSE s

\* (mutant) read's lambda hands over the payload whatever the code
read_callback_quiet(s, ec, data) == promise_set_value(s, 0, data)

read_callback(s, ec, data) ==
    IF ec = 0
    THEN promise_set_value(s, 0, data)
    ELSE promise_set_exception(s, make_exception("read", ec))

\* (mutant) the thread reads the service when it wakes up, not when it is
\* launched
Callback_live(th, s) ==
    CASE th.handler = "write_ec" -> write_ec_callback(s, injected_)
      [] th.handler = "read_ec" -> read_ec_callback(s, injected_, data_)
      [] th.handler = "read" -> read_callback(s, injected_, data_)

Callback(th, s) ==
    CASE th.handler = "write_ec" -> write_ec_callback(s, th.injected)
      [] th.handler = "read_ec" -> read_ec_callback(s, th.injected, th.data)
      [] th.handler = "read" -> read_callback(s, th.injected, th.data)

\* the promise the callback of th captured by reference still exists
PromiseAlive(th) == frame[th.owner] /\ ~th.dangling

\* (mutant) the adapters share one promise: the callback fulfils the
\* promise of whichever other invocation is open, its own if none is
Completion_crossed(th) ==
    LET to == IF \E u \in Tasks \ {th.owner} : frame[u]
              THEN CHOOSE u \in Tasks \ {th.owner} : frame[u]
              ELSE th.owner
    IN  /\ th \in threads
        /\ threads' = threads \ {th}
        /\ slot' = [slot EXCEPT ![to] = Callback(th, @)]
        /\ nset' = [nset EXCEPT ![to] = @ + 1]
        /\ uaf' = (uaf \/ ~PromiseAlive(th))
        /\ UNCHANGED <<data_, injected_, running, pc, frame, op, ninit, nsusp,
                       snap, result, ops, lastOk, lastWrite, roundTrip, expect>>

\* (mutant) the thread calls the callback twice
Completion_twice(th) ==
    /\ th \in threads
    /\ threads' = threads \ {th}
    /\ slot' = [slot EXCEPT ![th.owner] = Callback(th, Callback(th, @))]
    /\ nset' = [nset EXCEPT ![th.owner] = @ + 2]
    /\ uaf' = (uaf \/ ~PromiseAlive(th))
    /\ UNCHANGED <<data_, injected_, running, pc, frame, op, ninit, nsusp,
                   snap, result, ops, lastOk, lastWrite, roundTrip, expect>>

\* The detached thread wakes up and calls the callback once, then ends.
\* If the frame that held the promise is gone the reference dangles: the
\* call may go unnoticed or may scribble on whatever frame is there now.
Completion(th) ==
    /\ th \in threads
    /\ threads' = threads \ {th}
    /\ \E hit \in (IF PromiseAlive(th) THEN {TRUE}
                   ELSE IF frame[th.owner] THEN {TRUE, FALSE} ELSE {FALSE}) :
          /\ slot' = IF hit THEN [slot EXCEPT ![th.owner] = Callback(th, @)]
                     ELSE slot
          /\ nset' = IF hit THEN [nset EXCEPT ![th.owner] = @ + 1] ELSE nset
    /\ uaf' = (uaf \/ ~PromiseAlive(th))
    /\ UNCHANGED <<data_, injected_, running, pc, frame, op, ninit, nsusp,
                   snap, result, ops, lastOk, lastWrite, roundTrip, expect>>

\* (mutant) write() takes only positive codes for failures
Outcome_positive(o, s) ==
    LET got == future_get(s) IN
    IF got.kind = "throw" THEN got
    ELSE CASE o = "write_ec" -> [got EXCEPT !.data = NoData]
           [] o = "write" ->
                IF got.ec > 0
                THEN [kind |-> "throw", ec |-> 0, data |-> NoData,
                      what |-> make_exception("write", got.ec)]
                ELSE [got EXCEPT !.data = NoData, !.ec = 0]
           [] o = "read_ec" -> got
           [] o = "read" -> [got EXCEPT !.ec = 0]

\* how adapter o ends, given the ready state s of its promise
Outcome(o, s) ==
    LET got == future_get(s) IN
    IF got.kind = "throw" THEN got
    ELSE CASE o = "write_ec" -> [got EXCEPT !.data = NoData]
           [] o = "write" ->
                IF got.ec # 0
                THEN [kind |-> "throw", ec |-> 0, data |-> NoData,
                      what |-> make_exception("write", got.ec)]
                ELSE [got EXCEPT !.data = NoData, !.ec = 0]
           [] o = "read_ec" -> got
           [] o = "read" -> [got EXCEPT !.ec = 0]

\* the adapter returns or throws: promise and future are destroyed, and a
\* callback that has not run yet is left with a dangling reference
Return(t) ==
    /\ result' = [result EXCEPT ![t] = Outcome(op[t], slot[t])]
    /\ pc' = [pc EXCEPT ![t] = "idle"]
    /\ frame' = [frame EXCEPT ![t] = FALSE]
    /\ threads' = {IF th.owner = t THEN [th EXCEPT !.dangling = TRUE] ELSE th :
                      th \in threads}
    /\ Returned(t, result'[t])

\* (mutant) the adapter returns what is in the promise without waiting
Get_nowait(t) ==
    /\ running = t
    /\ pc[t] = "issued"
    /\ Return(t)
    /\ UNCHANGED <<running, nsusp>>
    /\ UNCHANGED <<data_, injected_, op, slot, nset, ninit, snap, ops, uaf>>

\* (mutant) the fiber waits inside future.get() without giving up the thread
Get_holds(t) ==
    /\ running = t
    /\ pc[t] = "issued"
    /\ IF is_ready(slot[t])
       THEN /\ Return(t)
            /\ UNCHANGED <<running, nsusp>>
       ELSE /\ pc' = [pc EXCEPT ![t] = "suspended"]
            /\ running' = running
            /\ nsusp' = [nsusp EXCEPT ![t] = @ + 1]
            /\ UNCHANGED <<result, frame, threads, lastOk, lastWrite,
                           roundTrip, expect>>
    /\ UNCHANGED <<data_, injected_, op, slot, nset, ninit, snap, ops, uaf>>

\* `return future.get();` reached by the running fiber: the value if the
\* state is ready, otherwise the fiber suspends and gives up the thread
Get(t) ==
    /\ running = t
    /\ pc[t] = "issued"
    /\ IF is_ready(slot[t])
       THEN /\ Return(t)
            /\ UNCHANGED <<running, nsusp>>
       ELSE /\ pc' = [pc EXCEPT ![t] = "suspended"]
            /\ running' = NoTask
            /\ nsusp' = [nsusp EXCEPT ![t] = @ + 1]
            /\ UNCHANGED <<result, frame, threads, lastOk, lastWrite,
                           roundTrip, expect>>
    /\ UNCHANGED <<data_, injected_, op, slot, nset, ninit, snap, ops, uaf>>

\* (mutant) get() returns on any wake-up, without looking at the state
Resume_unready(t) ==
    /\ running = NoTask
    /\ pc[t] = "suspended"
    /\ running' = t
    /\ Return(t)
    /\ UNCHANGED <<data_, injected_, op, slot, nset, ninit, nsusp, snap, ops,
                   uaf>>

\* (mutant) a wake-up sends the fiber round to wait again
Resume_spurious(t) ==
    /\ running = NoTask
    /\ pc[t] = "suspended"
    /\ running' = t
    /\ pc' = [pc EXCEPT ![t] = "issued"]
    /\ UNCHANGED <<result, frame, threads, lastOk, lastWrite, roundTrip,
                   expect>>
    /\ UNCHANGED <<data_, injected_, op, slot, nset, ninit, nsusp, snap, ops,
                   uaf>>

\* the scheduler resumes a fiber whose future became ready; get() returns
Resume(t) ==
    /\ running = NoTask
    /\ pc[t] = "suspended"
    /\ is_ready(slot[t])
    /\ running' = t
    /\ Return(t)
    /\ UNCHANGED <<data_, injected_, op, slot, nset, ninit, nsusp, snap, ops,
                   uaf>>

\* ---------------------------------------------------- the fiber scheduler
\* a ready fiber that is between two calls gets the free worker thread
Dispatch(t) ==
    /\ running = NoTask
    /\ pc[t] = "idle"
    /\ ops < MaxOps
    /\ running' = t
    /\ UNCHANGED <<data_, injected_, threads, pc, frame, op, slot, nset,
                   ninit, nsusp, snap, result, ops, uaf, lastOk, lastWrite,
                   roundTrip, expect>>

\* the running fiber yields the thread between two calls (or finishes)
Yield(t) ==
    /\ running = t
    /\ pc[t] = "idle"
    /\ running' = NoTask
    /\ Forget(t)
    /\ UNCHANGED <<data_, injected_, threads, pc, frame, ops, uaf, lastOk,
                   lastWrite, roundTrip>>

Next ==
    \/ \E t \in Tasks : \E c \in Codes : inject_error(t, c)
    \/ \E t \in Tasks : \E d \in Payloads : write_ec(t, d)
    \/ \E t \in Tasks : \E d \in Payloads : write(t, d)
    \/ \E t \in Tasks : read_ec(t)
    \/ \E t \in Tasks : read(t)
    \/ \E th \in threads : Completion(th)
    \/ \E t \in Tasks : Get(t)
    \/ \E t \in Tasks : Resume(t)
    \/ \E t \in Tasks : Dispatch(t)
    \/ \E t \in Tasks : Yield(t)

Spec == Init /\ [][Next]_vars

\* ------------------------------------------------------------ properties
\* fiber t is in the state right after its adapter call ended
Ended(t) == result[t].kind # "none"

\* C1: an adapter never returns or raises before the completion handler has
\* fulfilled its promise, and what the caller gets is what the handler
\* stored: the code for write_ec / write, the pair for read_ec, the payload
\* or the stored failure for read.
C1_FulfilledBeforeReturn ==
    \A t \in Tasks :
        Ended(t) =>
            /\ is_ready(slot[t])
            /\ nset[t] >= 1
            /\ op[t] = "write_ec" =>
                   result[t].kind = "ret" /\ result[t].ec = slot[t].ec
            /\ op[t] = "write" =>
                   (result[t].kind = "ret") = (slot[t].ec = 0)
            /\ op[t] = "read_ec" =>
                   /\ result[t].kind = "ret"
                   /\ result[t].ec = slot[t].ec
                   /\ result[t].data = slot[t].data
            /\ op[t] = "read" =>
                   IF slot[t].st = "value"
                   THEN result[t].kind = "ret" /\ result[t].data = slot[t].data
                   ELSE result[t].kind = "throw" /\ result[t].what = slot[t].what

\* a fiber suspended in future.get(), was resumed and got a nonzero code back
C1_Witness ==
    \E t \in Tasks :
        /\ Ended(t) /\ nsusp[t] = 1 /\ op[t] = "write_ec"
        /\ result[t].ec = 12 /\ slot[t].st = "value"

\* C2: no completion handler touches a promise whose adapter frame has
\* returned: every callback still to run holds a reference to a live
\* promise, and none has run on a dead one.
C2_NoDanglingPromise ==
    /\ ~uaf
    /\ \A th \in threads : PromiseAlive(th)

\* the handler ran while the fiber was still suspended inside the adapter
C2_Witness ==
    \E t \in Tasks :
        /\ pc[t] = "suspended" /\ frame[t] /\ nset[t] = 1
        /\ \A th \in threads : th.owner # t

\* C3: the promise of an invocation is fulfilled at most once, and exactly
\* once by the time the adapter has returned.
C3_FulfilledOnce ==
    \A t \in Tasks :
        /\ nset[t] <= 1
        /\ Ended(t) => nset[t] = 1

\* read() ended with the failure its handler stored with set_exception
C3_Witness ==
    \E t \in Tasks :
        /\ Ended(t) /\ op[t] = "read" /\ nset[t] = 1
        /\ slot[t].st = "exception"

\* C4: with every completion thread calling back and fair scheduling, an
\* adapter invocation that has been issued eventually ends: it returns or
\* raises, and does not stay suspended for ever.
C4_EveryInvocationEnds ==
    \A t \in Tasks : (pc[t] # "idle") ~> Ended(t)

\* every fiber is out of its adapter, the last to end had been suspended
\* and ended by raising
C4_Witness ==
    /\ ops = MaxOps
    /\ threads = {}
    /\ \A t \in Tasks : pc[t] = "idle"
    /\ \E t \in Tasks :
          Ended(t) /\ nsusp[t] = 1 /\ result[t].kind = "throw"

\* C5: write_ec and read_ec never raise: they return, and the code they
\* return is the code that was injected when the operation was issued (0 if
\* none was).
C5_EcAdaptersReturnTheCode ==
    \A t \in Tasks :
        (Ended(t) /\ op[t] \in {"write_ec", "read_ec"}) =>
            /\ result[t].kind = "ret"
            /\ result[t].ec = snap[t].injected

\* read_ec returned normally with the injected code -1
C5_Witness ==
    \E t \in Tasks :
        /\ Ended(t) /\ op[t] = "read_ec" /\ snap[t].injected = -1
        /\ result[t].kind = "ret" /\ result[t].ec = -1

\* the text "Error in AsyncAPI::<operation>(): <code>" for the codes in use
FailureText(desc, c) ==
    CASE desc = "write" /\ c = -1 -> "Error in AsyncAPI::write(): -1"
      [] desc = "write" /\ c = 12 -> "Error in AsyncAPI::write(): 12"
      [] desc = "read" /\ c = -1 -> "Error in AsyncAPI::read(): -1"
      [] desc = "read" /\ c = 12 -> "Error in AsyncAPI::read(): 12"
      [] OTHER -> "(no text)"

\* C6: write returns normally exactly when the delivered code is 0; for a
\* code C # 0 it raises a failure whose message is make_exception("write", C),
\* that is "Error in AsyncAPI::write(): <C>".
C6_WriteRaisesOnNonzero ==
    \A t \in Tasks :
        (Ended(t) /\ op[t] = "write") =>
            /\ (result[t].kind = "ret") = (snap[t].injected = 0)
            /\ snap[t].injected # 0 =>
                   /\ result[t].kind = "throw"
                   /\ result[t].what = make_exception("write", snap[t].injected)
                   /\ result[t].what = FailureText("write", snap[t].injected)

\* write raised "Error in AsyncAPI::write(): 12"
C6_Witness ==
    \E t \in Tasks :
        /\ Ended(t) /\ op[t] = "write" /\ snap[t].injected = 12
        /\ result[t].kind = "throw"
        /\ result[t].what = "Error in AsyncAPI::write(): 12"

\* C7: for an injected code C # 0, read raises and returns no payload; the
\* message is "Error in AsyncAPI::read(): <C>", and the failure raised is the
\* one the handler stored in the promise with set_exception.
C7_ReadRaisesOnNonzero ==
    \A t \in Tasks :
        (Ended(t) /\ op[t] = "read" /\ snap[t].injected # 0) =>
            /\ result[t].kind = "throw"
            /\ result[t].data = NoData
            /\ result[t].what = make_exception("read", snap[t].injected)
            /\ result[t].what = FailureText("read", snap[t].injected)
            /\ slot[t].st = "exception"
            /\ slot[t].what = result[t].what

\* read raised "Error in AsyncAPI::read(): -1" while a payload was stored
C7_Witness ==
    \E t \in Tasks :
        /\ Ended(t) /\ op[t] = "read" /\ snap[t].injected = -1
        /\ result[t].kind = "throw"
        /\ result[t].what = "Error in AsyncAPI::read(): -1"
        /\ data_ = "efgh"

\* C8: a read issued with no error injected, after the last write issued
\* wrote P and returned success, returns exactly P.
C8_RoundTrip ==
    \A t \in Tasks :
        (Ended(t) /\ op[t] = "read" /\ expect[t].rt # <<>>) =>
            /\ result[t].kind = "ret"
            /\ result[t].data = expect[t].rt[1]

\* read returned the "ijkl" that the write before it had stored
C8_Witness ==
    \E t \in Tasks :
        /\ Ended(t) /\ op[t] = "read" /\ expect[t].rt = <<"ijkl">>
        /\ result[t].kind = "ret" /\ result[t].data = "ijkl"

\* C9: when the delivered code is 0, read_ec returns (0, P), P being the
\* payload of the last write issued with no error injected before the read
\* was issued (the empty payload if there was none).
C9_ReadEcReturnsLastWritten ==
    \A t \in Tasks :
        (Ended(t) /\ op[t] = "read_ec" /\ snap[t].injected = 0) =>
            /\ result[t].kind = "ret"
            /\ result[t].ec = 0
            /\ result[t].data = expect[t].last

\* read_ec returned (0, "efgh"), the payload of an earlier write: the last
\* write issued before it had come back as failed
C9_Witness ==
    \E t \in Tasks :
        /\ Ended(t) /\ op[t] = "read_ec"
        /\ result[t] = [kind |-> "ret", ec |-> 0, data |-> "efgh", what |-> ""]
        /\ roundTrip = <<>> /\ lastWrite = <<>>
        /\ ops = MaxOps

\* C10: the stored payload changes only in a step that issues a write while
\* no error is injected, and then becomes that write's payload: a write
\* issued under an injected code, a read, inject_error and every other step
\* leave it as it is.
C10_OnlySuccessfulWriteStores ==
    [][data_' # data_ =>
          \E t \in Tasks :
              /\ pc[t] = "idle" /\ pc'[t] = "issued"
              /\ op'[t] \in {"write", "write_ec"}
              /\ injected_ = 0
              /\ lastWrite' = <<[by |-> t, data |-> data_']>>]_vars

\* "efgh" is still stored when the handler of write_ec("ijkl"), issued
\* under the injected code 12, has run
C10_Witness ==
    \E t \in Tasks :
        /\ pc[t] = "suspended" /\ op[t] = "write_ec" /\ is_ready(slot[t])
        /\ snap[t].injected = 12
        /\ lastWrite = <<[by |-> t, data |-> "ijkl"]>>
        /\ data_ = "efgh"

\* in this step fiber t enters an adapter, which issues its operation
Issues(t) == pc[t] = "idle" /\ pc'[t] = "issued"

\* this step is a call of inject_error
Injects == ops' = ops + 1 /\ pc' = pc

\* the codes the promise of fiber t's invocation may have been fulfilled
\* with: the stored code, or the code named in the stored failure
Observed(t) ==
    IF slot[t].st = "exception"
    THEN {c \in Codes : slot[t].what = make_exception("read", c)}
    ELSE {slot[t].ec}

\* C11: fault injection is one-shot. An operation observes the code that
\* inject_error left in the service (0 if none did), whatever the adapter;
\* issuing it resets the code, so that the operation issued next observes 0
\* unless a call of inject_error comes in between: the injected code changes
\* in no other step.
C11_OneShotInjection ==
    /\ [](\A t \in Tasks :
             is_ready(slot[t]) => Observed(t) = {snap[t].injected})
    /\ [][/\ \A t \in Tasks :
                Issues(t) =>
                    /\ snap'[t].injected = injected_
                    /\ \E th \in threads' \ threads :
                          th.owner = t /\ th.injected = injected_
                    /\ injected_' = 0
          /\ injected_' # injected_ =>
                (Injects \/ \E t \in Tasks : Issues(t))]_vars

\* the read_ec issued first observed the injected -1; the write issued
\* after it by the other fiber observed 0 and stored its payload
C11_Witness ==
    \E t, u \in Tasks :
        /\ op[t] = "read_ec" /\ snap[t] = [injected |-> -1, data |-> NoData]
        /\ slot[t].st = "value" /\ slot[t].ec = -1
        /\ op[u] = "write" /\ lastWrite = <<[by |-> u, data |-> "efgh"]>>
        /\ snap[u].injected = 0 /\ slot[u].st = "value" /\ slot[u].ec = 0
        /\ data_ = "efgh" /\ injected_ = 0

\* every fiber is inside an adapter: more invocations are in flight than
\* there are worker threads
AllInFlight == \A t \in Tasks : pc[t] # "idle"

\* C12: with more fibers than worker threads calling the adapters, all of
\* them complete. A fiber suspended in future.get() does not hold the worker
\* thread; while its operation is pending another fiber can get the thread
\* and issue an operation, any completion handler can fire and a fiber
\* whose promise is fulfilled can resume; and from a state where all fibers
\* are inside adapters at once, each of them comes to return.
C12_AllTasksComplete ==
    /\ [](\A t \in Tasks : pc[t] = "suspended" => running # t)
    /\ [](\A u \in Tasks :
             (pc[u] = "suspended" /\ ~is_ready(slot[u])) =>
                 /\ \A th \in threads : ENABLED Completion(th)
                 /\ \A t \in Tasks \ {u} :
                       /\ (running = NoTask /\ pc[t] = "idle" /\ ops < MaxOps)
                              => ENABLED Dispatch(t)
                       /\ (running = t /\ pc[t] = "idle" /\ ops < MaxOps)
                              => ENABLED read_ec(t)
                       /\ (running = t /\ pc[t] = "issued")
                              => ENABLED Get(t)
                       /\ (running = NoTask /\ pc[t] = "suspended"
                              /\ is_ready(slot[t]))
                              => ENABLED Resume(t))
    /\ \A t \in Tasks : AllInFlight ~> Ended(t)

\* a fiber that had suspended has returned while the operation of the other
\* fiber, suspended before it resumed, is still pending
C12_Witness ==
    \E t, u \in Tasks :
        /\ Ended(t) /\ nsusp[t] = 1 /\ running = t
        /\ pc[u] = "suspended" /\ ~is_ready(slot[u])
        /\ \E th \in threads : th.owner = u

InFlight(t) == {th \in threads : th.owner = t /\ ~th.dangling}

\* C14: an adapter invocation calls init_write / init_read exactly once,
\* whatever code is delivered: while it is inside the adapter one operation
\* is either in flight or has completed, and when it has returned or raised
\* (also on a nonzero code) it has issued once and left nothing in flight.
C14_IssuedExactlyOnce ==
    \A t \in Tasks :
        /\ (pc[t] # "idle" \/ Ended(t)) => ninit[t] = 1
        /\ pc[t] # "idle" => Cardinality(InFlight(t)) + nset[t] = 1
        /\ Ended(t) => {th \in threads : th.owner = t} = {}

\* write raised on the code -1 after one init_write, with nothing re-issued
C14_Witness ==
    \E t \in Tasks :
        /\ Ended(t) /\ op[t] = "write" /\ snap[t].injected = -1
        /\ result[t].kind = "throw"
        /\ ninit[t] = 1 /\ {th \in threads : th.owner = t} = {}

\* what a caller of the code-returning flavour gets by translating its
\* result r: the payload when the code is 0, make_exception(desc, code)
\* raised otherwise
ViaEc(desc, r) ==
    IF r.ec = 0
    THEN [kind |-> "ret", ec |-> 0, data |-> r.data, what |-> ""]
    ELSE [kind |-> "throw", ec |-> 0, data |-> NoData,
          what |-> make_exception(desc, r.ec)]

\* how read_ec (for "read") or write_ec (for "write") ends when the service
\* holds the injected code c and the payload p as the operation is issued
EcOutcome(desc, c, p) ==
    IF desc = "read"
    THEN Outcome("read_ec", read_ec_callback(EmptySlot, c, p))
    ELSE Outcome("write_ec", write_ec_callback(EmptySlot, c))

\* C15: the raising and the code-returning flavours agree. For the service
\* state (injected code, stored payload) an operation is issued in, read
\* ends as read_ec followed by `payload if code = 0, else raise
\* make_exception("read", code)` would, write as write_ec followed by `raise
\* make_exception("write", code) unless code = 0` would; and in every state
\* the two flavours of an operation leave the service (stored payload,
\* injected code) in the same state.
C15_FlavoursAgree ==
    /\ \A t \in Tasks :
          /\ (Ended(t) /\ op[t] \in {"read", "write"}) =>
                 result[t] = ViaEc(op[t], EcOutcome(op[t], snap[t].injected,
                                                    snap[t].data))
          /\ (Ended(t) /\ op[t] = "read_ec") =>
                 result[t] = EcOutcome("read", snap[t].injected, snap[t].data)
          /\ (Ended(t) /\ op[t] = "write_ec") =>
                 result[t] = EcOutcome("write", snap[t].injected, snap[t].data)
    /\ \A t \in Tasks : \A p \in Payloads \cup {NoData} : \A c \in Codes :
          /\ (ENABLED (read(t) /\ data_' = p /\ injected_' = c))
                 <=> (ENABLED (read_ec(t) /\ data_' = p /\ injected_' = c))
          /\ \A d \in Payloads :
                (ENABLED (write(t, d) /\ data_' = p /\ injected_' = c))
                    <=> (ENABLED (write_ec(t, d) /\ data_' = p /\ injected_' = c))

\* read raised "Error in AsyncAPI::read(): 12" where read_ec would have
\* returned (12, "ijkl")
C15_Witness ==
    \E t \in Tasks :
        /\ Ended(t) /\ op[t] = "read"
        /\ snap[t] = [injected |-> 12, data |-> "ijkl"]
        /\ EcOutcome("read", 12, "ijkl")
               = [kind |-> "ret", ec |-> 12, data |-> "ijkl", what |-> ""]
        /\ result[t] = [kind |-> "throw", ec |-> 0, data |-> NoData,
                        what |-> "Error in AsyncAPI::read(): 12"]

\* the lambda adapter o passes to the service
HandlerOf(o) == IF o = "write" THEN "write_ec" ELSE o

\* how the invocation of fiber t ends if the promise it reads holds what
\* the operation it issued itself delivers, and nothing else
OwnOutcome(t) ==
    Outcome(op[t],
            Callback(CompletionThread(t, HandlerOf(op[t]), snap[t].injected,
                                      snap[t].data),
                     EmptySlot))

\* C16: with several invocations in flight on the same service each has a
\* result slot of its own. A slot is written only by the completion handler
\* of the operation its invocation issued, at most one handler is in flight
\* for it, and a handler writes no other slot; so each fiber gets the code
\* and payload of its own operation, in whatever order the handlers fire.
C16_OwnSlotOwnOutcome ==
    /\ [](\A t \in Tasks :
             /\ Cardinality({th \in threads : th.owner = t}) <= 1
             /\ \A th \in threads :
                   th.owner = t =>
                       (frame[t] /\ ~is_ready(slot[t])
                            /\ th.handler = HandlerOf(op[t]))
             /\ Ended(t) => result[t] = OwnOutcome(t))
    /\ [][\A t \in Tasks :
             (slot'[t] # slot[t] /\ ~Issues(t) /\ slot'[t] # EmptySlot) =>
                 /\ \E th \in threads \ threads' :
                       th.owner = t /\ slot'[t] = Callback(th, slot[t])
                 /\ \A u \in Tasks \ {t} : slot'[u] = slot[u]]_vars

\* read_ec of one fiber returned its own (12, "") while the other fiber's
\* read_ec, issued later, holds (0, "efgh") in its own slot
C16_Witness ==
    \E t, u \in Tasks :
        /\ Ended(t) /\ op[t] = "read_ec"
        /\ result[t] = [kind |-> "ret", ec |-> 12, data |-> NoData, what |-> ""]
        /\ pc[u] = "suspended" /\ op[u] = "read_ec"
        /\ slot[u] = [st |-> "value", ec |-> 0, data |-> "efgh", what |-> ""]

\* the state of fiber t's promise once the handler has delivered the code
\* and payload the service held when the operation was issued
FixedAtIssue(t) ==
    Callback(CompletionThread(t, HandlerOf(op[t]), snap[t].injected,
                              snap[t].data),
             EmptySlot)

\* C17: the outcome of an operation is fixed when it is issued.
\* init_write / init_read hand the completion thread the injected code and
\* (for a read) the stored payload as they are in the issuing call; calls of
\* inject_error and writes of other fibers made while the operation is in
\* flight change neither, and the handler delivers exactly them.
C17_OutcomeFixedAtIssue ==
    /\ [](\A t \in Tasks :
             /\ \A th \in InFlight(t) :
                   /\ th.injected = snap[t].injected
                   /\ th.handler # "write_ec" => th.data = snap[t].data
             /\ is_ready(slot[t]) => slot[t] = FixedAtIssue(t))
    /\ [][\A t \in Tasks :
             /\ Issues(t) =>
                   /\ snap'[t].injected = injected_
                   /\ op'[t] \in {"read", "read_ec"} => snap'[t].data = data_
             /\ (pc[t] # "idle" /\ pc'[t] # "idle") =>
                   /\ snap'[t] = snap[t]
                   /\ InFlight(t)' \subseteq InFlight(t)
                   /\ slot'[t] # slot[t] => slot'[t] = FixedAtIssue(t)]_vars

\* read_ec returned the (12, "") fixed when it was issued, although another
\* fiber has since stored "ijkl" and injected -1
C17_Witness ==
    \E t \in Tasks :
        /\ Ended(t) /\ op[t] = "read_ec"
        /\ result[t] = [kind |-> "ret", ec |-> 12, data |-> NoData, what |-> ""]
        /\ data_ = "ijkl" /\ injected_ = -1

\* C18: with fibers sharing one service, a nonzero code left by inject_error
\* is delivered to exactly one operation, the first one issued after the
\* injection. The issuing call reads the code and resets it to 0 before the
\* fiber can suspend, no task switch and no completion touches it, and no
\* other invocation receives it: two nonzero codes observed take two
\* injections, and the code leaves the service only by being delivered (or
\* by a further call of inject_error replacing it before any operation).
C18_InjectionDeliveredOnce ==
    /\ [](Cardinality({t \in Tasks : snap[t].injected # 0}) * 2 <= ops)
    /\ [][/\ \A t \in Tasks :
                Issues(t) =>
                    /\ running = t /\ running' = t
                    /\ snap'[t].injected = injected_
                    /\ injected_' = 0
                    /\ \A u \in Tasks \ {t} :
                          snap'[u] = snap[u] /\ InFlight(u)' = InFlight(u)
          /\ injected_' # injected_ =>
                /\ running' = running
                /\ Injects \/ \E t \in Tasks : Issues(t)
          /\ (injected_' # injected_ /\ injected_' # 0) => Injects]_vars

\* two injections, two operations: one fiber's operation observed 12, the
\* other's -1, and nothing is left injected
C18_Witness ==
    \E t, u \in Tasks :
        /\ pc[t] = "suspended" /\ snap[t].injected = 12
        /\ Observed(t) = {12}
        /\ pc[u] = "suspended" /\ snap[u].injected = -1
        /\ Observed(u) = {-1}
        /\ injected_ = 0 /\ ops = 4

FairSpec ==
    /\ Spec
    /\ \A t \in Tasks :
          /\ WF_vars(\E th \in threads : th.owner = t /\ Completion(th))
          /\ WF_vars(Get(t))
          /\ WF_vars(Yield(t))
          /\ SF_vars(Resume(t))

====
